---- MODULE Spec2Model ----
(***************************************************************************)
(* Model of the authentication core of the MTAA backend                    *)
(* (src/app/auth/authentication.py, Tokenization.py, CreateUser.py) and of *)
(* the user-submitted places endpoints of src/app/endpoints/client.py.     *)
(*                                                                         *)
(* Every request handler is one action.  A handler runs its storage units  *)
(* of work (getconn / execute / commit / putconn) in order; the request's  *)
(* fault field names the unit that raises psycopg2.Error (0: no storage    *)
(* failure, k: execute of unit k raises, -k: getconn of unit k raises).    *)
(***************************************************************************)
EXTENDS Integers, Sequences, FiniteSets, TLC

VARIABLES
    users_auth,    \* the rows of table users_auth
    nextId,        \* the next id uuid.uuid4() hands to signup
    pool,          \* connections of the auth pool taken and not put back
    issued,        \* the tokens login has returned so far
    req,           \* the last request served
    resp,          \* the response to it
    users_before,  \* the rows of users_auth as that request found them
    my_places,     \* the rows of table my_places (client database)
    places,        \* the rows of table places (client database)
    notes,         \* the rows of table notes (client database)
    favourites,    \* the rows of table favourites (client database)
    nextPlace,     \* the next id uuid.uuid4() hands to add_place
    pool_client,   \* connections of pool_client taken and not put back
    place_creator, \* history: the identity that inserted each my_places id
    note_creator,  \* history: the identity that inserted each notes id
    touched,       \* the client tables the handler of req ran a statement on
    printed,       \* the fields of req in what the handler of req printed
    inflight,      \* per worker: the request it has begun and not finished
    conns          \* the getconn and putconn calls of the handler of req

auth_vars == <<users_auth, nextId, pool, issued, users_before>>
client_vars == <<my_places, places, notes, favourites, nextPlace,
                 pool_client, place_creator, note_creator>>
vars == <<auth_vars, req, resp, client_vars, touched, printed, inflight,
          conns>>

----------------------------------------------------------------------------
(* Bounds of the model *)

\* number of ids uuid4 hands out to signup before signup is disabled
MaxUsers == 2
\* number of ids uuid4 hands out to add_place, and of activity ids
MaxPlaces == 1
\* number of server processes serving signups side by side
MaxWorkers == 2

(* Program constants *)

\* psycopg2.pool.SimpleConnectionPool(maxconn=10)
maxconn == 10
\* the length limit of check_length_input
MaxFieldLen == 255

----------------------------------------------------------------------------
(* Strings are sequences of one-character strings.  None (a JSON null or   *)
(* an absent key: input.get returns None for both) is the one value that   *)
(* is not a string of characters.                                          *)

None == <<"None">>
Empty == <<>>

U1 == <<"u", "1">>
U2 == <<"u", "2">>
P1 == <<"p", "1">>
P2 == <<"p", "2">>
EA == <<"a", "@", "x", ".", "c", "c">>
EB == <<"b", "@", "x", ".", "c", "c">>
EBad == <<"a", "@", "x">>
S1 == <<"0", "a">>
S2 == <<"0", "b">>

\* Python truthiness of a str-or-None value: None and "" are falsy
Truthy(x) == x # None /\ x # Empty

Lower == {"a", "b", "c", "d", "e", "f", "g", "h", "i", "j", "k", "l", "m",
          "n", "o", "p", "q", "r", "s", "t", "u", "v", "w", "x", "y", "z"}
Upper == {"A", "B", "C", "D", "E", "F", "G", "H", "I", "J", "K", "L", "M",
          "N", "O", "P", "Q", "R", "S", "T", "U", "V", "W", "X", "Y", "Z"}
Digit == {"0", "1", "2", "3", "4", "5", "6", "7", "8", "9"}
\* \w of the re module (ASCII part)
WordChar == Lower \cup Upper \cup Digit \cup {"_"}
\* [A-Za-z0-9._%+-]
LocalChar == Lower \cup Upper \cup Digit \cup {".", "_", "%", "+", "-"}
\* [A-Za-z0-9.-]
DomainChar == Lower \cup Upper \cup Digit \cup {".", "-"}
\* [A-Z|a-z]
TldChar == Lower \cup Upper \cup {"|"}

----------------------------------------------------------------------------
(* CreateUser *)

\* check_length_input on four str values, as signup calls it past its test
\* for empty fields
check_length_input(username, email, password, confirm_password) ==
    /\ Len(username) <= MaxFieldLen
    /\ Len(email) <= MaxFieldLen
    /\ Len(password) <= MaxFieldLen
    /\ Len(confirm_password) <= MaxFieldLen

validate_input(username, email, password, confirm_password) ==
    IF check_length_input(username, email, password, confirm_password)
    THEN TRUE ELSE FALSE

\* a keyword argument that was not passed: kwargs['...'] raises KeyError
Missing == <<"Missing">>

\* len(kwargs[name]) <= 255 for one keyword argument: the comparison for a
\* str, KeyError for a key that is not there, TypeError for None
len_result(x) ==
    IF x = Missing THEN "KeyError"
    ELSE IF x = None THEN "TypeError"
    ELSE IF Len(x) <= MaxFieldLen THEN "True"
    ELSE "False"

\* check_length_input called with any keyword arguments: the four
\* comparisons joined by `and`, evaluated from the left, the first one that
\* is not True deciding (False ends the evaluation, an exception leaves it)
check_length_input_result(username, email, password, confirm_password) ==
    IF len_result(username) # "True" THEN len_result(username)
    ELSE IF len_result(email) # "True" THEN len_result(email)
    ELSE IF len_result(password) # "True" THEN len_result(password)
    ELSE len_result(confirm_password)

\* return True if self.check_length_input(**kwargs) else False
validate_input_result(username, email, password, confirm_password) ==
    check_length_input_result(username, email, password, confirm_password)

\* re.fullmatch(r'\b[A-Za-z0-9._%+-]+@[A-Za-z0-9.-]+\.[A-Z|a-z]{2,7}\b', email):
\* i is the place of the "@", j the place of the "." before the last label
validate_email(email) ==
    \E i \in 1..Len(email) :
      /\ email[i] = "@"
      /\ 1 < i
      /\ \E j \in (i + 2)..Len(email) :
        /\ email[j] = "."
        /\ \A k \in 1..(i - 1) : email[k] \in LocalChar
        /\ \A k \in (i + 1)..(j - 1) : email[k] \in DomainChar
        /\ Len(email) - j >= 2 /\ Len(email) - j <= 7
        /\ \A k \in (j + 1)..Len(email) : email[k] \in TldChar
        /\ email[1] \in WordChar
        /\ email[Len(email)] \in WordChar

\* validate_email called with any keyword argument: bool(re.fullmatch(...))
\* for a str, KeyError for a key that is not there, TypeError for None
validate_email_result(email) ==
    IF email = Missing THEN "KeyError"
    ELSE IF email = None THEN "TypeError"
    ELSE IF validate_email(email) THEN "True"
    ELSE "False"

----------------------------------------------------------------------------
(* Tokenization *)

Salts == {S1, S2}

\* pbkdf2_hmac("sha256", password, salt, 10000).hex(): a function of the
\* pair, taken to be collision free
password_hashing(original_pass, salty_pass) ==
    [kdf |-> "pbkdf2_hmac_sha256", pass |-> original_pass, salt |-> salty_pass]

JWT_SECRET_KEY == "JWT_SECRET_KEY"

\* a token without an id claim carries id 0 (content.get("id") is None)
NoId == 0

\* jwt.encode called with a key other than settings.JWT_SECRET_KEY
jwt_token_generalization_other_key(content) ==
    [form |-> "jwt", key |-> "other", id |-> content.id, exp |-> "none"]

\* jwt.encode(content, settings.JWT_SECRET_KEY, algorithm=settings.ALGORITHM)
jwt_token_generalization(content) ==
    [form |-> "jwt", key |-> JWT_SECRET_KEY, id |-> content.id, exp |-> "none"]

NoToken == [form |-> "absent", key |-> "none", id |-> NoId, exp |-> "none"]

\* jwt.decode(token, settings.JWT_SECRET_KEY, algorithms=[settings.ALGORITHM]):
\* the structure and the signature are verified before the exp claim
jwt_decode(token) ==
    IF token.form # "jwt" THEN [error |-> "InvalidTokenError", id |-> NoId]
    ELSE IF token.key # JWT_SECRET_KEY
         THEN [error |-> "InvalidTokenError", id |-> NoId]
    ELSE IF token.exp = "past"
         THEN [error |-> "ExpiredSignatureError", id |-> NoId]
    ELSE [error |-> "none", id |-> token.id]

\* Tokens a client can send that login did not issue: an undecodable
\* string, a token signed with another key, and tokens of another issuer
\* that holds the secret (one carrying a passed exp claim, one with no id)
ForeignTokens ==
    { [form |-> "garbage", key |-> "none", id |-> NoId, exp |-> "none"],
      [form |-> "jwt", key |-> "attacker", id |-> 1, exp |-> "none"],
      [form |-> "jwt", key |-> JWT_SECRET_KEY, id |-> 1, exp |-> "past"],
      [form |-> "jwt", key |-> JWT_SECRET_KEY, id |-> NoId, exp |-> "none"] }

----------------------------------------------------------------------------
(* Responses and requests *)

Response(status, detail) ==
    [status |-> status, detail |-> detail, jwt_token |-> NoToken]

Request(op, token, username, email, password, confirm_password, fault) ==
    [op |-> op, token |-> token, username |-> username, email |-> email,
     password |-> password, confirm_password |-> confirm_password,
     fault |-> fault]

\* what a handler leaves behind: its response, the table, and whether a
\* connection it took was never put back
Outcome(response, rows, leaked) ==
    [resp |-> response, users |-> rows, leaked |-> leaked]

\* One storage unit of work, the k-th of the handler.  pool.getconn
\* raises when every connection is out (PoolError) or when the request's
\* fault is -k (the pool cannot open a connection); otherwise execute or
\* commit raises when the request's fault is k.
Unit(k, fault) ==
    IF pool >= maxconn \/ fault = -k THEN "getconn"
    ELSE IF fault = k THEN "execute"
    ELSE "ok"

\* a unit that raised after getconn never reaches putconn
Leaks(k, fault) == Unit(k, fault) = "execute"

----------------------------------------------------------------------------
(* authentication.py: signup *)

check_passwords_equality(password, confirm_password) ==
    password = confirm_password

\* check_signup_input without the comparison of the two passwords
check_signup_input_skips_equality(username, email, password, confirm_password) ==
    /\ validate_input(username, email, password, confirm_password)
    /\ validate_email(email)

check_signup_input(username, email, password, confirm_password) ==
    /\ check_passwords_equality(password, confirm_password)
    /\ validate_input(username, email, password, confirm_password)
    /\ validate_email(email)

\* email_exists with the WHERE clause on the wrong column
email_exists_by_username(email) ==
    \E row \in users_auth : row.username = email

\* SELECT EXISTS(SELECT 1 FROM users_auth WHERE email=%s)
email_exists(email) == \E row \in users_auth : row.email = email

InternalError == Response(500, "Internal server error")
DatabaseError == Response(500, "Database error")

\* signup running its INSERT before check_signup_input
signup_outcome_inserts_first(r, id, salt) ==
    IF ~(Truthy(r.username) /\ Truthy(r.email) /\ Truthy(r.password)
         /\ Truthy(r.confirm_password))
    THEN Outcome(Response(400, "Bad request: All fields are required."),
                 users_auth, FALSE)
    ELSE IF Unit(1, r.fault) # "ok"
    THEN Outcome(InternalError, users_auth, Leaks(1, r.fault))
    ELSE IF email_exists(r.email)
    THEN Outcome(Response(400, "Bad request: Email already exists."),
                 users_auth, FALSE)
    ELSE IF Unit(2, r.fault) # "ok"
    THEN Outcome(DatabaseError, users_auth, Leaks(2, r.fault))
    ELSE Outcome(IF check_signup_input(r.username, r.email, r.password,
                                       r.confirm_password)
                 THEN Response(201, "Created: User created successfully")
                 ELSE Response(403, "Forbidden: Access forbidden."),
                 users_auth \cup
                    {[id |-> id, username |-> r.username, email |-> r.email,
                      password_salt |-> salt,
                      password_hash |-> password_hashing(r.password, salt)]},
                 FALSE)

\* signup with the arguments of its INSERT in another order: the password
\* where the salt belongs
signup_outcome_stores_plaintext(r, id, salt) ==
    IF ~(Truthy(r.username) /\ Truthy(r.email) /\ Truthy(r.password)
         /\ Truthy(r.confirm_password))
    THEN Outcome(Response(400, "Bad request: All fields are required."),
                 users_auth, FALSE)
    ELSE IF Unit(1, r.fault) # "ok"
    THEN Outcome(InternalError, users_auth, Leaks(1, r.fault))
    ELSE IF email_exists(r.email)
    THEN Outcome(Response(400, "Bad request: Email already exists."),
                 users_auth, FALSE)
    ELSE IF ~check_signup_input(r.username, r.email, r.password,
                                r.confirm_password)
    THEN Outcome(Response(403, "Forbidden: Access forbidden."),
                 users_auth, FALSE)
    ELSE IF Unit(2, r.fault) # "ok"
    THEN Outcome(DatabaseError, users_auth, Leaks(2, r.fault))
    ELSE Outcome(Response(201, "Created: User created successfully"),
                 users_auth \cup
                    {[id |-> id, username |-> r.username, email |-> r.email,
                      password_salt |-> r.password,
                      password_hash |-> password_hashing(r.password, salt)]},
                 FALSE)

signup_outcome(r, id, salt) ==
    IF ~(Truthy(r.username) /\ Truthy(r.email) /\ Truthy(r.password)
         /\ Truthy(r.confirm_password))
    THEN Outcome(Response(400, "Bad request: All fields are required."),
                 users_auth, FALSE)
    ELSE IF Unit(1, r.fault) # "ok"
    THEN Outcome(InternalError, users_auth, Leaks(1, r.fault))
    ELSE IF email_exists(r.email)
    THEN Outcome(Response(400, "Bad request: Email already exists."),
                 users_auth, FALSE)
    ELSE IF ~check_signup_input(r.username, r.email, r.password,
                                r.confirm_password)
    THEN Outcome(Response(403, "Forbidden: Access forbidden."),
                 users_auth, FALSE)
    ELSE IF Unit(2, r.fault) # "ok"
    THEN Outcome(DatabaseError, users_auth, Leaks(2, r.fault))
    ELSE Outcome(Response(201, "Created: User created successfully"),
                 users_auth \cup
                    {[id |-> id, username |-> r.username, email |-> r.email,
                      password_salt |-> salt,
                      password_hash |-> password_hashing(r.password, salt)]},
                 FALSE)

----------------------------------------------------------------------------
(* authentication.py: login *)

\* the row cursor.fetchone() hands back when the SELECT matched nothing
NoRow == [id |-> NoId, username |-> None, email |-> None,
          password_salt |-> None,
          password_hash |-> password_hashing(None, None)]

\* SELECT * FROM users_auth WHERE username = %s; cursor.fetchone(): the
\* query has no ORDER BY, so any matching row may come first
get_user_records(username) ==
    IF \E row \in users_auth : row.username = username
    THEN {row \in users_auth : row.username = username}
    ELSE {NoRow}

\* get_user after the fetch: the token for the fetched row, or False
get_user(record, password) ==
    IF record # NoRow
       /\ check_passwords_equality(
              record.password_hash,
              password_hashing(password, record.password_salt))
    THEN jwt_token_generalization([id |-> record.id])
    ELSE NoToken

\* login answering an unknown username with a body of its own
login_outcome_names_the_cause(r, record) ==
    IF ~Truthy(r.username) \/ ~Truthy(r.password)
    THEN Outcome(Response(400, "Bad request"), users_auth, FALSE)
    ELSE IF Unit(1, r.fault) # "ok"
    THEN Outcome(InternalError, users_auth, Leaks(1, r.fault))
    ELSE IF record = NoRow
    THEN Outcome(Response(401, "Unknown user"), users_auth, FALSE)
    ELSE IF get_user(record, r.password) # NoToken
    THEN Outcome([status |-> 200, detail |-> "jwt_token",
                  jwt_token |-> get_user(record, r.password)],
                 users_auth, FALSE)
    ELSE Outcome(Response(401, "Unauthorized"), users_auth, FALSE)

login_outcome(r, record) ==
    IF ~Truthy(r.username) \/ ~Truthy(r.password)
    THEN Outcome(Response(400, "Bad request"), users_auth, FALSE)
    ELSE IF Unit(1, r.fault) # "ok"
    THEN Outcome(InternalError, users_auth, Leaks(1, r.fault))
    ELSE IF get_user(record, r.password) # NoToken
    THEN Outcome([status |-> 200, detail |-> "jwt_token",
                  jwt_token |-> get_user(record, r.password)],
                 users_auth, FALSE)
    ELSE Outcome(Response(401, "Unauthorized"), users_auth, FALSE)

----------------------------------------------------------------------------
(* authentication.py: forgotten_password *)

\* generate_new_hashed_password returns the pair (salt, hash), or a dict
\* with the single key "status" when the passwords differ; the callers
\* unpack the result into two names, which raises ValueError for the dict
generate_new_hashed_password(password, confirm_password, salt) ==
    IF check_passwords_equality(password, confirm_password)
    THEN [unpacks |-> TRUE, salty_password |-> salt,
          hashed_password |-> password_hashing(password, salt)]
    ELSE [unpacks |-> FALSE, salty_password |-> None,
          hashed_password |-> password_hashing(None, None)]

\* the UPDATE writing password_salt alone
UpdatePassword_salt_only(selected, new) ==
    { IF row \in selected
      THEN [row EXCEPT !.password_salt = new.salty_password]
      ELSE row : row \in users_auth }

\* UPDATE users_auth SET password_salt = %s, password_hash = %s WHERE <sel>
UpdatePassword(selected, new) ==
    { IF row \in selected
      THEN [row EXCEPT !.password_salt = new.salty_password,
                       !.password_hash = new.hashed_password]
      ELSE row : row \in users_auth }

forgotten_password_outcome(r, salt) ==
    LET new == generate_new_hashed_password(r.password, r.confirm_password,
                                            salt)
        ByEmail == {row \in users_auth : row.email = r.email}
    IN
    IF ~(Truthy(r.email) /\ Truthy(r.password) /\ Truthy(r.confirm_password))
    THEN Outcome(Response(400, "Bad request: All fields are required."),
                 users_auth, FALSE)
    ELSE IF Unit(1, r.fault) # "ok"
    THEN Outcome(InternalError, users_auth, Leaks(1, r.fault))
    ELSE IF ~email_exists(r.email)
    THEN Outcome(Response(403, "Forbidden: Access forbidden."),
                 users_auth, FALSE)
    ELSE IF ~new.unpacks
    THEN Outcome(InternalError, users_auth, FALSE)
    ELSE IF Unit(2, r.fault) # "ok"
    THEN Outcome(DatabaseError, users_auth, Leaks(2, r.fault))
    ELSE Outcome(Response(200, "OK: Password updated successfully"),
                 UpdatePassword(ByEmail, new), FALSE)

----------------------------------------------------------------------------
(* authentication.py: token_access *)

\* get_user_id: SELECT * FROM users_auth WHERE id = %s; None when
\* cursor.rowcount == 0, else the fetched row
get_user_id(id) ==
    IF \E row \in users_auth : row.id = id
    THEN CHOOSE row \in users_auth : row.id = id
    ELSE NoRow

\* What token_access hands its caller: an id ("id"), None ("None"), an
\* HTTPException it raised itself or that get_user_id raised ("HTTPException",
\* with its status), or the TypeError of db_user_id[0] when get_user_id
\* returned None.  Its storage unit is the first of the calling handler.
token_access(token, fault) ==
    LET decoded == jwt_decode(token)
        user_id == decoded.id
        db_user_id == get_user_id(user_id)
        Result(kind, status, id, leaked) ==
            [kind |-> kind, status |-> status, id |-> id, leaked |-> leaked]
    IN
    IF decoded.error = "ExpiredSignatureError"
    THEN Result("HTTPException", 401, NoId, FALSE)
    ELSE IF decoded.error = "InvalidTokenError"
    THEN Result("HTTPException", 403, NoId, FALSE)
    ELSE IF user_id = NoId
    THEN Result("None", 0, NoId, FALSE)
    ELSE IF Unit(1, fault) # "ok"
    THEN Result("HTTPException", 500, NoId, Leaks(1, fault))
    ELSE IF db_user_id = NoRow
    THEN Result("TypeError", 0, NoId, FALSE)
    ELSE IF db_user_id.id = NoId
    THEN Result("None", 0, NoId, FALSE)
    ELSE IF user_id = db_user_id.id
    THEN Result("id", 0, user_id, FALSE)
    ELSE Result("None", 0, NoId, FALSE)

NotFoundUser == Response(404, "Not Found: User not found.")

----------------------------------------------------------------------------
(* authentication.py: edit_profile *)

edit_only_username_or_email(attribute_to_change, stay_attribute, password, confirm_password) ==
    /\ attribute_to_change # None
    /\ ~Truthy(stay_attribute)
    /\ ~Truthy(password)
    /\ ~Truthy(confirm_password)

edit_only_password(password, confirm_password, username, email) ==
    /\ password # None
    /\ confirm_password # None
    /\ ~Truthy(username)
    /\ ~Truthy(email)

\* edit_username with the UPDATE lacking its WHERE id = %s
edit_username_every_row(username, id, fault) ==
    IF Unit(2, fault) # "ok"
    THEN Outcome(DatabaseError, users_auth, Leaks(2, fault))
    ELSE Outcome(Response(200, "OK: Username updated successfully."),
                 { [row EXCEPT !.username = username] : row \in users_auth },
                 FALSE)

\* edit_username with an UPDATE that also sets id, to a value of its own
edit_username_rewrites_id(username, id, fault) ==
    IF Unit(2, fault) # "ok"
    THEN Outcome(DatabaseError, users_auth, Leaks(2, fault))
    ELSE IF \E row \in users_auth : row.id = id
    THEN Outcome(Response(200, "OK: Username updated successfully."),
                 { IF row.id = id
                   THEN [row EXCEPT !.username = username,
                                    !.id = id + MaxUsers]
                   ELSE row : row \in users_auth },
                 FALSE)
    ELSE Outcome(Response(500, "Username is not updated, check id."),
                 users_auth, FALSE)

\* edit_username refusing a username that another row holds
edit_username_checks_username(username, id, fault) ==
    IF Unit(2, fault) # "ok"
    THEN Outcome(DatabaseError, users_auth, Leaks(2, fault))
    ELSE IF \E row \in users_auth : row.username = username /\ row.id # id
    THEN Outcome(Response(500, "Username is not updated, check id."),
                 users_auth, FALSE)
    ELSE IF \E row \in users_auth : row.id = id
    THEN Outcome(Response(200, "OK: Username updated successfully."),
                 { IF row.id = id THEN [row EXCEPT !.username = username]
                   ELSE row : row \in users_auth },
                 FALSE)
    ELSE Outcome(Response(500, "Username is not updated, check id."),
                 users_auth, FALSE)

\* edit_username as an upsert: the row is inserted when the UPDATE would
\* match nothing
edit_username_upserts(username, id, fault) ==
    IF Unit(2, fault) # "ok"
    THEN Outcome(DatabaseError, users_auth, Leaks(2, fault))
    ELSE Outcome(Response(200, "OK: Username updated successfully."),
                 { row \in users_auth : row.id # id }
                 \cup { [id |-> id, username |-> username, email |-> None,
                         password_salt |-> S1,
                         password_hash |-> password_hashing(None, S1)] },
                 FALSE)

\* UPDATE users_auth SET username = %s WHERE id = %s
edit_username(username, id, fault) ==
    IF Unit(2, fault) # "ok"
    THEN Outcome(DatabaseError, users_auth, Leaks(2, fault))
    ELSE IF \E row \in users_auth : row.id = id
    THEN Outcome(Response(200, "OK: Username updated successfully."),
                 { IF row.id = id THEN [row EXCEPT !.username = username]
                   ELSE row : row \in users_auth },
                 FALSE)
    ELSE Outcome(Response(500, "Username is not updated, check id."),
                 users_auth, FALSE)

\* email_exists, validate_email, then UPDATE users_auth SET email = %s
\* WHERE id = %s
edit_email(email, id, fault) ==
    IF Unit(2, fault) # "ok"
    THEN Outcome(InternalError, users_auth, Leaks(2, fault))
    ELSE IF email_exists(email) \/ ~validate_email(email)
    THEN Outcome(Response(500, "Email is not updated, check id or email."),
                 users_auth, FALSE)
    ELSE IF Unit(3, fault) # "ok"
    THEN Outcome(DatabaseError, users_auth, Leaks(3, fault))
    ELSE IF \E row \in users_auth : row.id = id
    THEN Outcome(Response(200, "OK: Email updated successfully."),
                 { IF row.id = id THEN [row EXCEPT !.email = email]
                   ELSE row : row \in users_auth },
                 FALSE)
    ELSE Outcome(Response(500, "Email is not updated, check id or email."),
                 users_auth, FALSE)

\* generate_new_hashed_password, then UPDATE users_auth SET password_salt,
\* password_hash WHERE id = %s
edit_password(password, confirm_password, id, salt, fault) ==
    LET new == generate_new_hashed_password(password, confirm_password, salt)
        ById == {row \in users_auth : row.id = id}
    IN
    IF ~new.unpacks
    THEN Outcome(InternalError, users_auth, FALSE)
    ELSE IF Unit(2, fault) # "ok"
    THEN Outcome(DatabaseError, users_auth, Leaks(2, fault))
    ELSE IF \E row \in users_auth : row.id = id
    THEN Outcome(Response(200, "OK: Password updated successfully."),
                 UpdatePassword(ById, new), FALSE)
    ELSE Outcome(Response(500, "Password is not updated, check id."),
                 users_auth, FALSE)

\* edit_profile from `input = await request.json()` on, id being the value
\* token_access returned
edit_profile_update_outcome(r, id, salt) ==
    IF ~(Truthy(r.username) \/ Truthy(r.email) \/ Truthy(r.password)
         \/ Truthy(r.confirm_password))
    THEN Outcome(Response(200, "No changes were made."), users_auth, FALSE)
    ELSE IF edit_only_username_or_email(r.username, r.email, r.password,
                                        r.confirm_password)
    THEN edit_username(r.username, id, r.fault)
    ELSE IF edit_only_username_or_email(r.email, r.username, r.password,
                                        r.confirm_password)
    THEN edit_email(r.email, id, r.fault)
    ELSE IF edit_only_password(r.password, r.confirm_password, r.username,
                               r.email)
    THEN edit_password(r.password, r.confirm_password, id, salt, r.fault)
    ELSE Outcome(Response(200, "null"), users_auth, FALSE)

edit_profile_outcome(r, salt) ==
    LET token_access_value == token_access(r.token, r.fault) IN
    IF token_access_value.kind \in {"HTTPException", "TypeError"}
    THEN Outcome(InternalError, users_auth, token_access_value.leaked)
    ELSE IF token_access_value.kind = "None"
    THEN Outcome(NotFoundUser, users_auth, FALSE)
    ELSE edit_profile_update_outcome(r, token_access_value.id, salt)

----------------------------------------------------------------------------
(* authentication.py: delete_account *)

delete_account_outcome(r) ==
    LET token_access_value == token_access(r.token, r.fault)
        user_id == token_access_value.id
    IN
    IF token_access_value.kind \in {"HTTPException", "TypeError"}
    THEN Outcome(InternalError, users_auth, token_access_value.leaked)
    ELSE IF token_access_value.kind = "None"
    THEN Outcome(NotFoundUser, users_auth, FALSE)
    ELSE IF user_id = NoId
    THEN Outcome(InternalError, users_auth, FALSE)
    ELSE IF Unit(2, r.fault) # "ok"
    THEN Outcome(DatabaseError, users_auth, Leaks(2, r.fault))
    ELSE IF ~\E row \in users_auth : row.id = user_id
    THEN Outcome(InternalError, users_auth, FALSE)
    ELSE Outcome(Response(200, "OK: Account deleted successfully."),
                 {row \in users_auth : row.id # user_id}, FALSE)

----------------------------------------------------------------------------
(* The calls of getconn and putconn a handler makes, in their order: each  *)
(* is a pair of the pool and the call.                                     *)

Get(p) == <<p, "getconn">>
Put(p) == <<p, "putconn">>

\* one storage unit of work of authentication.py: getconn raised (nothing
\* taken), execute raised (taken, never put back), or both calls made
UnitConns(k, fault) ==
    IF Unit(k, fault) = "getconn" THEN <<>>
    ELSE IF Unit(k, fault) = "execute" THEN <<Get("pool")>>
    ELSE <<Get("pool"), Put("pool")>>

\* signup: email_exists, then the INSERT
signup_conns(r) ==
    IF ~(Truthy(r.username) /\ Truthy(r.email) /\ Truthy(r.password)
         /\ Truthy(r.confirm_password))
    THEN <<>>
    ELSE IF Unit(1, r.fault) # "ok" THEN UnitConns(1, r.fault)
    ELSE IF email_exists(r.email)
            \/ ~check_signup_input(r.username, r.email, r.password, r.confirm_password)
    THEN UnitConns(1, r.fault)
    ELSE UnitConns(1, r.fault) \o UnitConns(2, r.fault)

\* login: get_user
login_conns(r) ==
    IF ~Truthy(r.username) \/ ~Truthy(r.password) THEN <<>>
    ELSE UnitConns(1, r.fault)

\* forgotten_password: email_exists, then the UPDATE
forgotten_password_conns(r) ==
    IF ~(Truthy(r.email) /\ Truthy(r.password) /\ Truthy(r.confirm_password))
    THEN <<>>
    ELSE IF Unit(1, r.fault) # "ok" THEN UnitConns(1, r.fault)
    ELSE IF ~email_exists(r.email)
            \/ ~check_passwords_equality(r.password, r.confirm_password)
    THEN UnitConns(1, r.fault)
    ELSE UnitConns(1, r.fault) \o UnitConns(2, r.fault)

\* token_access: get_user_id, when the token verifies and carries an id
token_access_conns(token, fault) ==
    IF jwt_decode(token).error # "none" \/ jwt_decode(token).id = NoId
    THEN <<>>
    ELSE UnitConns(1, fault)

\* edit_email: email_exists, then the UPDATE
edit_email_conns(email, fault) ==
    IF Unit(2, fault) # "ok" THEN UnitConns(2, fault)
    ELSE IF email_exists(email) \/ ~validate_email(email)
    THEN UnitConns(2, fault)
    ELSE UnitConns(2, fault) \o UnitConns(3, fault)

\* edit_profile past token_access: edit_username, edit_email or
\* edit_password
edit_profile_update_conns(r) ==
    IF ~(Truthy(r.username) \/ Truthy(r.email) \/ Truthy(r.password)
         \/ Truthy(r.confirm_password))
    THEN <<>>
    ELSE IF edit_only_username_or_email(r.username, r.email, r.password, r.confirm_password)
    THEN UnitConns(2, r.fault)
    ELSE IF edit_only_username_or_email(r.email, r.username, r.password, r.confirm_password)
    THEN edit_email_conns(r.email, r.fault)
    ELSE IF edit_only_password(r.password, r.confirm_password, r.username, r.email)
            /\ check_passwords_equality(r.password, r.confirm_password)
    THEN UnitConns(2, r.fault)
    ELSE <<>>

edit_profile_conns(r) ==
    token_access_conns(r.token, r.fault)
    \o (IF token_access(r.token, r.fault).kind = "id"
        THEN edit_profile_update_conns(r) ELSE <<>>)

\* delete_account: token_access, then the DELETE
delete_account_conns(r) ==
    token_access_conns(r.token, r.fault)
    \o (IF token_access(r.token, r.fault).kind = "id"
        THEN UnitConns(2, r.fault) ELSE <<>>)

----------------------------------------------------------------------------
(* endpoints/client.py: the user-submitted places and the notes.  The rows *)
(* of my_places, places and notes carry no user column.                    *)

PlaceIds == 1..MaxPlaces

ClientRequest(op, token, id, name, note) ==
    [op |-> op, token |-> token, id |-> id, name |-> name, note |-> note,
     fault |-> 0]

\* what a client handler leaves behind: its response, its tables, whether
\* a connection it took from pool_client was never put back, and its calls
\* of getconn and putconn past token_access (one connection, taken and
\* put back, unless the path says otherwise)
ClientOutcome(response, mine, all, texts) ==
    [resp |-> response, my_places |-> mine, places |-> all, notes |-> texts,
     favourites |-> favourites, touched |-> {}, leaked |-> FALSE,
     conns |-> <<Get("pool_client"), Put("pool_client")>>]

\* the outcome of the statements a handler runs past its gate, on tables
Touching(tables, outcome) == [outcome EXCEPT !.touched = tables]

Unchanged(response) == ClientOutcome(response, my_places, places, notes)

\* the outcome of a handler that wrote table favourites
Favourites(rows, outcome) == [outcome EXCEPT !.favourites = rows]

\* the outcome of a path whose calls of getconn and putconn are events
Connecting(events, outcome) == [outcome EXCEPT !.conns = events]

\* the outcome of a path that ends without pool_client.putconn(conn): its
\* last putconn is not made
Leaking(outcome) ==
    [outcome EXCEPT !.leaked = TRUE,
                    !.conns = SubSeq(outcome.conns, 1, Len(outcome.conns) - 1)]

\* the outcome of a path that ends before the handler's getconn
Before(response) == Connecting(<<>>, Unchanged(response))

\* conn = pool_client.getconn(), inside the try of the handler: PoolError
\* when every connection of the pool is out
getconn_client(then) ==
    IF pool_client >= maxconn THEN Before(InternalError) ELSE then

\* the gate with the 404 for None left out
Gate_without_404(r, then) ==
    LET token_access_value == token_access(r.token, r.fault) IN
    IF token_access_value.kind \in {"HTTPException", "TypeError"}
    THEN Before(InternalError)
    ELSE getconn_client(then)

\* the first lines of every client handler: token_access inside the try
\* whose except turns every exception into a 500, then the 404 for None,
\* then the getconn of the handler
Gate(r, then) ==
    LET token_access_value == token_access(r.token, r.fault) IN
    IF token_access_value.kind \in {"HTTPException", "TypeError"}
    THEN Before(InternalError)
    ELSE IF token_access_value.kind = "None"
    THEN Before(NotFoundUser)
    ELSE getconn_client(then)

\* POST /api/add_my_place: INSERT INTO my_places, INSERT INTO places
add_place_outcome(r, gen_uuid) ==
    Gate(r, Touching({"my_places", "places"},
            ClientOutcome(Response(201, "OK: Place created."),
                          my_places \cup {[id |-> gen_uuid, name |-> r.name]},
                          places \cup {[id |-> gen_uuid, name |-> r.name]},
                          notes)))

\* PUT /api/edit_my_place: SELECT FROM my_places WHERE id; when found,
\* DELETE from both tables and INSERT the new values into both
edit_place_outcome(r) ==
    Gate(r, IF \E row \in my_places : row.id = r.id
            THEN Touching({"my_places", "places"},
                 ClientOutcome(
                     Response(201, "OK: Place edited."),
                     {row \in my_places : row.id # r.id}
                         \cup {[id |-> r.id, name |-> r.name]},
                     {row \in places : row.id # r.id}
                         \cup {[id |-> r.id, name |-> r.name]},
                     notes))
            ELSE Touching({"my_places"},
                          Unchanged(Response(205, "OK: Place not found."))))

\* DELETE /api/delete_my_place: SELECT FROM my_places WHERE id; when found,
\* DELETE from both tables
delete_my_place_outcome(r) ==
    Gate(r, IF \E row \in my_places : row.id = r.id
            THEN Touching({"my_places", "places"},
                 ClientOutcome(Response(201, "OK: Place deleted."),
                               {row \in my_places : row.id # r.id},
                               {row \in places : row.id # r.id},
                               notes))
            ELSE Touching({"my_places"},
                          Unchanged(Response(205, "OK: Place not found."))))

\* PUT /api/add_edit_note: INSERT INTO notes ... ON CONFLICT(id) DO UPDATE
add_note_outcome(r) ==
    Gate(r, Touching({"notes"},
            ClientOutcome(Response(201, "OK: Note added to place."),
                          my_places, places,
                          {row \in notes : row.id # r.id}
                              \cup {[id |-> r.id, note |-> r.note]})))

\* DELETE /api/delete_note: SELECT FROM notes WHERE id; when found, DELETE
delete_note_outcome(r) ==
    Gate(r, Touching({"notes"},
            IF \E row \in notes : row.id = r.id
            THEN ClientOutcome(Response(201, "OK: Note deleted."),
                               my_places, places,
                               {row \in notes : row.id # r.id})
            ELSE Unchanged(Response(205, "FAIL: Note does not exist."))))

\* GET /api/get_all_places: SELECT ... FROM places
get_all_places_outcome(r) ==
    Gate(r, Touching({"places"},
            IF places # {}
            THEN Unchanged(Response(200, "items"))
            ELSE Unchanged(Response(204, "No records found"))))

\* GET /api/place: SELECT ... FROM places where id = %s
get_place_outcome(r) ==
    Gate(r, Touching({"places"},
            IF \E row \in places : row.id = r.id
            THEN Unchanged(Response(200, "items"))
            ELSE Unchanged(Response(204, "No records found"))))

\* GET /api/get_my_places: SELECT ... FROM my_places
get_my_places_outcome(r) ==
    Gate(r, Touching({"my_places"},
            IF my_places # {}
            THEN Unchanged(Response(201, "note"))
            ELSE Unchanged(Response(205, "Place not found"))))

\* GET /api/get_my_place: SELECT ... FROM my_places WHERE id = %s
get_my_place_outcome(r) ==
    Gate(r, Touching({"my_places"},
            IF \E row \in my_places : row.id = r.id
            THEN Unchanged(Response(201, "note"))
            ELSE Unchanged(Response(205, "Place not found"))))

\* GET /api/get_note: SELECT * FROM notes WHERE id = %s
get_note_outcome(r) ==
    Gate(r, Touching({"notes"},
            IF \E row \in notes : row.id = r.id
            THEN Unchanged(Response(201, "note"))
            ELSE Unchanged(Response(205, "Place does not have notes"))))

\* add_favourit when the place is not in favourites: the first connection
\* is put back before the second is taken
TwoConnections ==
    <<Get("pool_client"), Put("pool_client"),
      Get("pool_client"), Put("pool_client")>>

\* add_favourit taking its second connection before the first is put back
add_favourit_outcome_nests(r) ==
    Gate(r, IF \E row \in favourites : row.id = r.id
            THEN Touching({"favourites"},
                          Unchanged(Response(205, "Place already in favourites")))
            ELSE IF \E row \in places : row.id = r.id
            THEN Touching({"favourites", "places"},
                 Connecting(<<Get("pool_client"), Get("pool_client"),
                              Put("pool_client"), Put("pool_client")>>,
                 Favourites(favourites \cup {row \in places : row.id = r.id},
                            Unchanged(Response(201, "OK: Place added to favourites.")))))
            ELSE Touching({"favourites", "places"},
                          Leaking(Connecting(TwoConnections,
                                             Unchanged(InternalError)))))

\* POST /api/add_favourite: SELECT FROM favourites WHERE id, putconn; when
\* nothing was found a second getconn, SELECT FROM places WHERE id and
\* INSERT INTO favourites.  fetchone() of the second SELECT is unpacked
\* into thirteen names, which raises TypeError for None before putconn
add_favourit_outcome(r) ==
    Gate(r, IF \E row \in favourites : row.id = r.id
            THEN Touching({"favourites"},
                          Unchanged(Response(205, "Place already in favourites")))
            ELSE IF \E row \in places : row.id = r.id
            THEN Touching({"favourites", "places"},
                 Connecting(TwoConnections,
                 Favourites(favourites \cup {row \in places : row.id = r.id},
                            Unchanged(Response(201, "OK: Place added to favourites.")))))
            ELSE Touching({"favourites", "places"},
                          Leaking(Connecting(TwoConnections,
                                             Unchanged(InternalError)))))

\* the rows table places of the server's database can hold: no handler
\* of client.py writes that table, and its ids are the server's own
ServerRows ==
    {[id |-> 1, name |-> <<"n", "2">>],
     [id |-> MaxPlaces + 1, name |-> <<"n", "2">>]}

\* update_databse re-inserting the rows of my_places after the server's
update_databse_outcome_keeps_mine(r, server_places) ==
    Gate(r, Touching({"places"},
            Connecting(<<Get("pool_client"), Get("pool_server"),
                         Put("pool_client"), Put("pool_server")>>,
            ClientOutcome(IF server_places # {}
                          THEN Response(201, "Records updated")
                          ELSE Response(205, "Records not found"),
                          my_places,
                          server_places
                              \cup {row \in my_places :
                                       ~\E s \in server_places : s.id = row.id},
                          notes))))

\* PUT /api/update_databse: getconn on pool_client, getconn on
\* pool_server, DELETE FROM places, then one INSERT INTO places per row of
\* SELECT * FROM places of the server, putconn on both; 201 when a row
\* was copied, else 205
update_databse_outcome(r, server_places) ==
    Gate(r, Touching({"places"},
            Connecting(<<Get("pool_client"), Get("pool_server"),
                         Put("pool_client"), Put("pool_server")>>,
            ClientOutcome(IF server_places # {}
                          THEN Response(201, "Records updated")
                          ELSE Response(205, "Records not found"),
                          my_places, server_places, notes))))

\* POST /api/delete_favourite: SELECT FROM favourites WHERE id; when found,
\* DELETE, commit and putconn; else the 205 is returned with the
\* connection still out
delete_favourit_outcome(r) ==
    Gate(r, Touching({"favourites"},
            IF \E row \in favourites : row.id = r.id
            THEN Favourites({row \in favourites : row.id # r.id},
                            Unchanged(Response(201, "OK: Place deleted from favourites.")))
            ELSE Leaking(Unchanged(Response(205, "Place not in favourites")))))

----------------------------------------------------------------------------
(* authentication.py: signup served by several server processes.  Each     *)
(* process runs its handler to the end of a unit of work before another    *)
(* request is served by it, but the processes share one database, so the   *)
(* statements of two signups interleave between the units of work: the     *)
(* SELECT of email_exists and the INSERT.                                  *)

Workers == 1..MaxWorkers

Idle == [phase |-> "idle", r |-> Request("none", NoToken, None, None, None, None, 0)]

\* INSERT against a table with a unique index on email: the statement
\* raises when a row with the email is there
signup_insert_outcome_unique_email(r, id, salt) ==
    IF Unit(2, r.fault) # "ok"
    THEN Outcome(DatabaseError, users_auth, Leaks(2, r.fault))
    ELSE IF email_exists(r.email)
    THEN Outcome(DatabaseError, users_auth, TRUE)
    ELSE Outcome(Response(201, "Created: User created successfully"),
                 users_auth \cup
                    {[id |-> id, username |-> r.username, email |-> r.email,
                      password_salt |-> salt,
                      password_hash |-> password_hashing(r.password, salt)]},
                 FALSE)

\* the second unit of work of signup: INSERT INTO users_auth VALUES (...),
\* which adds the row whatever the table holds
signup_insert_outcome(r, id, salt) ==
    IF Unit(2, r.fault) # "ok"
    THEN Outcome(DatabaseError, users_auth, Leaks(2, r.fault))
    ELSE Outcome(Response(201, "Created: User created successfully"),
                 users_auth \cup
                    {[id |-> id, username |-> r.username, email |-> r.email,
                      password_salt |-> salt,
                      password_hash |-> password_hashing(r.password, salt)]},
                 FALSE)

----------------------------------------------------------------------------
(* The handlers as actions *)

\* print(f"Error executing SQL query: {e}") in the except psycopg2.Error
\* clause of signup, forgotten_password, edit_username, edit_email,
\* edit_password and delete_account: e is the error of the statement that
\* raised in execute, and its text can quote the arguments of that
\* statement.  The fields of the request among those arguments:
Printed(r, o) ==
    IF ~(o.resp = DatabaseError /\ o.leaked) THEN {}
    ELSE IF r.op = "signup" THEN {"username", "email"}
    ELSE IF r.op = "forgotten_password" THEN {"email"}
    ELSE IF r.op = "edit_profile"
            /\ edit_only_username_or_email(r.username, r.email, r.password,
                                           r.confirm_password)
    THEN {"username"}
    ELSE IF r.op = "edit_profile"
            /\ edit_only_username_or_email(r.email, r.username, r.password,
                                           r.confirm_password)
    THEN {"email"}
    ELSE {}

\* the effect of a handler on the table, the pool and the exchange
Finish(r, o) ==
    /\ req' = r
    /\ resp' = o.resp
    /\ users_auth' = o.users
    /\ users_before' = users_auth
    /\ pool' = IF o.leaked THEN pool + 1 ELSE pool
    /\ touched' = {}
    /\ printed' = Printed(r, o)
    /\ UNCHANGED client_vars

\* password_salting() is called only on the path that writes a password:
\* the salts os.urandom can return when the handler gets there
password_salting(reached) == IF reached THEN Salts ELSE {S1}

\* signup taking for its row the lowest id that no row holds, in place of
\* a fresh uuid4
signup_reuses_id(r) ==
    \E salt \in password_salting(
                    signup_outcome(r, nextId, S1).resp.status = 201) :
    \E id \in {k \in 1..nextId : /\ ~\E row \in users_auth : row.id = k
                                 /\ \A j \in 1..(k - 1) :
                                        \E row \in users_auth : row.id = j} :
    \E o \in {signup_outcome(r, id, salt)} :
        /\ o.resp.status = 201 => nextId <= MaxUsers
        /\ Finish(r, o)
        /\ conns' = signup_conns(r)
        /\ UNCHANGED inflight
        /\ nextId' = IF o.resp.status = 201 THEN nextId + 1 ELSE nextId
        /\ UNCHANGED issued

\* POST /api/signup/: uuid.uuid4() is a fresh id
signup(r) ==
    \E salt \in password_salting(
                    signup_outcome(r, nextId, S1).resp.status = 201) :
    \E o \in {signup_outcome(r, nextId, salt)} :
        /\ o.resp.status = 201 => nextId <= MaxUsers
        /\ Finish(r, o)
        /\ conns' = signup_conns(r)
        /\ UNCHANGED inflight
        /\ nextId' = IF o.resp.status = 201 THEN nextId + 1 ELSE nextId
        /\ UNCHANGED issued

\* POST /api/login/
login(r) ==
    \E record \in get_user_records(r.username) :
    \E o \in {login_outcome(r, record)} :
        /\ Finish(r, o)
        /\ conns' = login_conns(r)
        /\ UNCHANGED inflight
        /\ issued' = IF o.resp.status = 200
                     THEN issued \cup {o.resp.jwt_token} ELSE issued
        /\ UNCHANGED nextId

\* PUT /api/forgotten-password/
forgotten_password(r) ==
    \E salt \in password_salting(
                    forgotten_password_outcome(r, S1).resp.status = 200) :
    \E o \in {forgotten_password_outcome(r, salt)} :
        /\ Finish(r, o)
        /\ conns' = forgotten_password_conns(r)
        /\ UNCHANGED inflight
        /\ UNCHANGED <<nextId, issued>>

\* PATCH /api/edit_profile/
edit_profile(r) ==
    \E salt \in password_salting(
                    edit_profile_outcome(r, S1).resp.detail
                        = "OK: Password updated successfully.") :
    \E o \in {edit_profile_outcome(r, salt)} :
        /\ Finish(r, o)
        /\ conns' = edit_profile_conns(r)
        /\ UNCHANGED inflight
        /\ UNCHANGED <<nextId, issued>>

\* DELETE /api/delete_account/
delete_account(r) ==
    \E o \in {delete_account_outcome(r)} :
        /\ Finish(r, o)
        /\ conns' = delete_account_conns(r)
        /\ UNCHANGED inflight
        /\ UNCHANGED <<nextId, issued>>

\* signup up to the INSERT on process w: the fields are there, email_exists
\* answered False and check_signup_input passed
signup_check(w, r) ==
    /\ inflight[w] = Idle
    /\ nextId + Cardinality({v \in Workers : inflight[v] # Idle}) <= MaxUsers
    /\ signup_outcome(r, nextId, S1).resp.status = 201
    /\ inflight' = [inflight EXCEPT ![w] = [phase |-> "checked", r |-> r]]
    /\ UNCHANGED <<auth_vars, req, resp, client_vars, touched, printed, conns>>

\* the rest of that signup: salt, hash, uuid4 and the INSERT
signup_insert(w) ==
    /\ inflight[w].phase = "checked"
    /\ \E salt \in password_salting(TRUE) :
       \E o \in {signup_insert_outcome(inflight[w].r, nextId, salt)} :
           /\ Finish(inflight[w].r, o)
           /\ conns' = <<Get("pool"), Put("pool")>> \o UnitConns(2, inflight[w].r.fault)
           /\ nextId' = IF o.resp.status = 201 THEN nextId + 1 ELSE nextId
           /\ UNCHANGED issued
    /\ inflight' = [inflight EXCEPT ![w] = Idle]

\* edit_profile up to `input = await request.json()`, where the handler
\* hands control back to the event loop: token_access returned an id
edit_profile_token(w, r) ==
    /\ inflight[w] = Idle
    /\ token_access(r.token, r.fault).kind = "id"
    /\ inflight' = [inflight EXCEPT ![w] = [phase |-> "resolved", r |-> r]]
    /\ UNCHANGED <<auth_vars, req, resp, client_vars, touched, printed, conns>>

\* the rest of that edit_profile, with the id token_access returned
edit_profile_update(w) ==
    /\ inflight[w].phase = "resolved"
    /\ \E salt \in password_salting(
                       edit_profile_update_outcome(
                           inflight[w].r, jwt_decode(inflight[w].r.token).id,
                           S1).resp.detail
                           = "OK: Password updated successfully.") :
       \E o \in {edit_profile_update_outcome(
                     inflight[w].r, jwt_decode(inflight[w].r.token).id,
                     salt)} :
           /\ Finish(inflight[w].r, o)
           /\ conns' = <<Get("pool"), Put("pool")>>
                        \o edit_profile_update_conns(inflight[w].r)
           /\ UNCHANGED <<nextId, issued>>
    /\ inflight' = [inflight EXCEPT ![w] = Idle]

\* the effect of a client handler on its tables and the exchange
ClientFinish(r, o) ==
    /\ req' = r
    /\ resp' = o.resp
    /\ my_places' = o.my_places
    /\ places' = o.places
    /\ notes' = o.notes
    /\ favourites' = o.favourites
    /\ pool_client' = IF o.leaked THEN pool_client + 1 ELSE pool_client
    /\ touched' = o.touched
    /\ printed' = {}
    /\ conns' = token_access_conns(r.token, r.fault) \o o.conns
    /\ UNCHANGED <<auth_vars, inflight>>

\* the identity token_access resolved for the request
Resolved(r) == token_access(r.token, r.fault).id

add_place(r) ==
    \E o \in {add_place_outcome(r, nextPlace)} :
        /\ o.resp.status = 201 => nextPlace <= MaxPlaces
        /\ ClientFinish(r, o)
        /\ nextPlace' = IF o.resp.status = 201 THEN nextPlace + 1
                        ELSE nextPlace
        /\ place_creator' = IF o.resp.status = 201
                            THEN [place_creator EXCEPT
                                      ![nextPlace] = Resolved(r)]
                            ELSE place_creator
        /\ UNCHANGED note_creator

edit_place(r) ==
    \E o \in {edit_place_outcome(r)} :
        /\ ClientFinish(r, o)
        /\ UNCHANGED <<nextPlace, place_creator, note_creator>>

delete_my_place(r) ==
    \E o \in {delete_my_place_outcome(r)} :
        /\ ClientFinish(r, o)
        /\ UNCHANGED <<nextPlace, place_creator, note_creator>>

add_note(r) ==
    \E o \in {add_note_outcome(r)} :
        /\ ClientFinish(r, o)
        /\ note_creator' = IF o.resp.status = 201
                              /\ ~\E row \in notes : row.id = r.id
                           THEN [note_creator EXCEPT ![r.id] = Resolved(r)]
                           ELSE note_creator
        /\ UNCHANGED <<nextPlace, place_creator>>

delete_note(r) ==
    \E o \in {delete_note_outcome(r)} :
        /\ ClientFinish(r, o)
        /\ UNCHANGED <<nextPlace, place_creator, note_creator>>

\* the GET endpoints over places, my_places and notes
get_all_places(r) ==
    \E o \in {get_all_places_outcome(r)} :
        /\ ClientFinish(r, o)
        /\ UNCHANGED <<nextPlace, place_creator, note_creator>>

get_place(r) ==
    \E o \in {get_place_outcome(r)} :
        /\ ClientFinish(r, o)
        /\ UNCHANGED <<nextPlace, place_creator, note_creator>>

get_my_places(r) ==
    \E o \in {get_my_places_outcome(r)} :
        /\ ClientFinish(r, o)
        /\ UNCHANGED <<nextPlace, place_creator, note_creator>>

get_my_place(r) ==
    \E o \in {get_my_place_outcome(r)} :
        /\ ClientFinish(r, o)
        /\ UNCHANGED <<nextPlace, place_creator, note_creator>>

get_note(r) ==
    \E o \in {get_note_outcome(r)} :
        /\ ClientFinish(r, o)
        /\ UNCHANGED <<nextPlace, place_creator, note_creator>>

add_favourit(r) ==
    \E o \in {add_favourit_outcome(r)} :
        /\ ClientFinish(r, o)
        /\ UNCHANGED <<nextPlace, place_creator, note_creator>>

delete_favourit(r) ==
    \E o \in {delete_favourit_outcome(r)} :
        /\ ClientFinish(r, o)
        /\ UNCHANGED <<nextPlace, place_creator, note_creator>>

\* update_databse when SELECT * FROM places of the server returns
\* server_places
update_databse_reading(r, server_places) ==
    \E o \in {update_databse_outcome(r, server_places)} :
        /\ ClientFinish(r, o)
        /\ UNCHANGED <<nextPlace, place_creator, note_creator>>

\* the table of the server is read as it is when the request arrives
update_databse(r) ==
    \E server_places \in SUBSET ServerRows :
        update_databse_reading(r, server_places)

\* a call of a function of CreateUser by itself: req is the call with its
\* arguments and resp.detail the value returned or the exception raised
Returned(r, value) ==
    /\ req' = r
    /\ resp' = Response(0, value)
    /\ conns' = <<>>
    /\ UNCHANGED <<auth_vars, client_vars, touched, printed, inflight>>

\* CreateUser().validate_input(username=..., email=..., password=...,
\* confirm_password=...)
validate_input_call(r) ==
    \E value \in {validate_input_result(r.username, r.email, r.password, r.confirm_password)} :
        /\ r.op = "validate_input"
        /\ Returned(r, value)

\* CreateUser().validate_email(email=...)
validate_email_call(r) ==
    \E value \in {validate_email_result(r.email)} :
        /\ r.op = "validate_email"
        /\ Returned(r, value)

----------------------------------------------------------------------------
(* The requests of the specifications *)

Usernames == {U1, U2}
Emails == {EA, EB}
Passwords == {P1, P2}

\* the bearer tokens a client can present: those login issued, and the
\* tokens login never issued
Tokens == issued \cup ForeignTokens

\* password and confirm_password: equal, or different
PasswordPairs == {<<P1, P1>>, <<P2, P2>>, <<P1, P2>>}

SignupRequests ==
    { Request("signup", NoToken, u, e, pc[1], pc[2], 0) :
        u \in Usernames, e \in Emails, pc \in PasswordPairs }
    \cup { Request("signup", NoToken, U1, EBad, P1, P1, 0),
           Request("signup", NoToken, None, EA, P1, P1, 0),
           Request("signup", NoToken, U1, Empty, P1, P1, 0),
           Request("signup", NoToken, U1, EA, None, P1, 0),
           Request("signup", NoToken, U1, EA, P1, Empty, 0),
           Request("signup", NoToken, U1, EA, P1, P2, -1),
           Request("signup", NoToken, U2, EA, P1, P1, -1),
           Request("signup", NoToken, U2, EB, P2, P2, -2) }

LoginRequests ==
    { Request("login", NoToken, u, None, p, None, 0) :
        u \in Usernames, p \in Passwords }
    \cup { Request("login", NoToken, None, None, P1, None, 0),
           Request("login", NoToken, U1, None, Empty, None, 0) }

ForgottenRequests ==
    { Request("forgotten_password", NoToken, None, e, pc[1], pc[2], 0) :
        e \in Emails, pc \in PasswordPairs }
    \cup { Request("forgotten_password", NoToken, None, None, P1, P1, 0),
           Request("forgotten_password", NoToken, None, EA, P1, Empty, 0) }

\* one intent per request; a token login never issued with one of them
EditRequests ==
    { Request("edit_profile", t, u, None, None, None, 0) :
        t \in issued, u \in Usernames }
    \cup { Request("edit_profile", t, U2, None, None, None, 0) :
             t \in ForeignTokens }
    \cup { Request("edit_profile", t, None, e, None, None, 0) :
             t \in issued, e \in Emails \cup {EBad} }
    \cup { Request("edit_profile", t, None, None, pc[1], pc[2], 0) :
             t \in issued, pc \in PasswordPairs }

DeleteRequests ==
    { Request("delete_account", t, None, None, None, None, 0) : t \in Tokens }

Init ==
    /\ users_auth = {}
    /\ nextId = 1
    /\ pool = 0
    /\ issued = {}
    /\ req = Request("none", NoToken, None, None, None, None, 0)
    /\ resp = Response(0, "none")
    /\ users_before = {}
    /\ my_places = {}
    /\ places = {}
    /\ notes = {}
    /\ favourites = {}
    /\ nextPlace = 1
    /\ pool_client = 0
    /\ place_creator = [id \in PlaceIds |-> NoId]
    /\ note_creator = [id \in PlaceIds |-> NoId]
    /\ touched = {}
    /\ printed = {}
    /\ inflight = [w \in Workers |-> Idle]
    /\ conns = <<>>

Next ==
    \/ \E r \in SignupRequests : signup(r)
    \/ \E r \in LoginRequests : login(r)
    \/ \E r \in ForgottenRequests : forgotten_password(r)
    \/ \E r \in EditRequests : edit_profile(r)
    \/ \E r \in DeleteRequests : delete_account(r)

Spec == Init /\ [][Next]_vars

----------------------------------------------------------------------------
(* edit_profile under every combination of absent, empty and non-empty     *)
(* fields, on accounts of one sign-up form                                 *)

EditSignupRequests == { Request("signup", NoToken, U1, EA, P1, P1, 0) }

EditLoginRequests == { Request("login", NoToken, U1, None, P1, None, 0) }

Absent == {None, Empty}

EditCombinations ==
    { Request("edit_profile", t, u, e, p, c, 0) :
        t \in issued, u \in Absent \cup {U2}, e \in Absent \cup {EB},
        p \in Absent \cup {P2}, c \in Absent \cup {P2} }
    \cup { Request("edit_profile", t, None, None, P2, P1, 0) : t \in issued }

NextEdit ==
    \/ \E r \in EditSignupRequests : signup(r)
    \/ \E r \in EditLoginRequests : login(r)
    \/ \E r \in EditCombinations : edit_profile(r)

SpecEdit == Init /\ [][NextEdit]_vars

----------------------------------------------------------------------------
(* The auth flows under storage failures: every unit of work of every      *)
(* handler can raise in execute after its getconn                          *)

StorageRequests ==
    { Request("signup", NoToken, U1, EA, P1, P1, f) : f \in {0, 1, 2, -1} }
    \cup { Request("login", NoToken, U1, None, P1, None, f) : f \in {0, 1} }
    \cup { Request("forgotten_password", NoToken, None, EA, P2, P2, f) :
             f \in {0, 1, 2} }
    \cup { Request("edit_profile", t, U2, None, None, None, f) :
             t \in issued, f \in {0, 1, 2} }
    \cup { Request("edit_profile", t, None, EB, None, None, f) :
             t \in issued, f \in {0, 1, 2, 3} }
    \cup { Request("edit_profile", t, None, None, P2, P2, f) :
             t \in issued, f \in {0, 1, 2} }
    \cup { Request("delete_account", t, None, None, None, None, f) :
             t \in issued, f \in {0, 1, 2} }

Of(op) == {r \in StorageRequests : r.op = op}

NextStorage ==
    \/ \E r \in Of("signup") : signup(r)
    \/ \E r \in Of("login") : login(r)
    \/ \E r \in Of("forgotten_password") : forgotten_password(r)
    \/ \E r \in Of("edit_profile") : edit_profile(r)
    \/ \E r \in Of("delete_account") : delete_account(r)

SpecStorage == Init /\ [][NextStorage]_vars

----------------------------------------------------------------------------
(* The places and notes endpoints, called by two signed-up users *)

N1 == <<"n", "1">>
N2 == <<"n", "2">>
T1 == <<"t", "1">>
T2 == <<"t", "2">>

ClientSignupRequests ==
    { Request("signup", NoToken, U1, EA, P1, P1, 0),
      Request("signup", NoToken, U2, EB, P2, P2, 0) }

ClientLoginRequests ==
    { Request("login", NoToken, U1, None, P1, None, 0),
      Request("login", NoToken, U2, None, P2, None, 0) }

NextClient ==
    \/ \E r \in ClientSignupRequests : signup(r)
    \/ \E r \in ClientLoginRequests : login(r)
    \/ \E t \in issued :
           add_place(ClientRequest("add_my_place", t, NoId, N1, None))
    \/ \E t \in issued, id \in PlaceIds, name \in {N1, N2} :
           edit_place(ClientRequest("edit_my_place", t, id, name, None))
    \/ \E t \in issued, id \in PlaceIds :
           delete_my_place(ClientRequest("delete_my_place", t, id, None, None))
    \/ \E t \in issued, id \in PlaceIds, note \in {T1, T2} :
           add_note(ClientRequest("add_edit_note", t, id, None, note))
    \/ \E t \in issued, id \in PlaceIds :
           delete_note(ClientRequest("delete_note", t, id, None, None))

SpecClient == Init /\ [][NextClient]_vars

----------------------------------------------------------------------------
(* The token-gated endpoints, called with every kind of bearer token: the  *)
(* tokens login issued (of users that still have their row and of users    *)
(* that deleted it) and the tokens login never issued                      *)

NextGate ==
    \/ \E r \in EditSignupRequests : signup(r)
    \/ \E r \in EditLoginRequests : login(r)
    \/ \E r \in DeleteRequests : delete_account(r)
    \/ \E t \in Tokens :
           edit_profile(Request("edit_profile", t, None, EA, None, None, 0))
    \/ \E t \in Tokens :
           add_place(ClientRequest("add_my_place", t, NoId, N1, None))
    \/ \E t \in Tokens, id \in PlaceIds :
           edit_place(ClientRequest("edit_my_place", t, id, N2, None))
    \/ \E t \in Tokens, id \in PlaceIds :
           delete_my_place(ClientRequest("delete_my_place", t, id, None, None))
    \/ \E t \in Tokens, id \in PlaceIds :
           add_note(ClientRequest("add_edit_note", t, id, None, T1))
    \/ \E t \in Tokens, id \in PlaceIds :
           delete_note(ClientRequest("delete_note", t, id, None, None))
    \/ \E t \in Tokens :
           get_all_places(ClientRequest("get_all_places", t, NoId, None, None))
    \/ \E t \in Tokens, id \in PlaceIds :
           get_place(ClientRequest("place", t, id, None, None))
    \/ \E t \in Tokens :
           get_my_places(ClientRequest("get_my_places", t, NoId, None, None))
    \/ \E t \in Tokens, id \in PlaceIds :
           get_my_place(ClientRequest("get_my_place", t, id, None, None))
    \/ \E t \in Tokens, id \in PlaceIds :
           get_note(ClientRequest("get_note", t, id, None, None))

SpecGate == Init /\ [][NextGate]_vars

----------------------------------------------------------------------------
(* Signups on two server processes, with logins and password resets *)

RaceRequests ==
    { Request("signup", NoToken, u, EA, P1, P1, 0) : u \in Usernames }

NextRace ==
    \/ \E w \in Workers, r \in RaceRequests : signup_check(w, r)
    \/ \E w \in Workers : signup_insert(w)
    \/ \E r \in LoginRequests : login(r)
    \/ \E r \in ForgottenRequests : forgotten_password(r)

SpecRace == Init /\ [][NextRace]_vars

----------------------------------------------------------------------------
(* The email edit next to signup: two accounts, and emails that are free,  *)
(* taken, of no email shape, and of email shape but longer than the limit  *)
(* of check_length_input.  The store either takes the long value or its    *)
(* UPDATE raises (fault 3).                                                *)

\* 251 times "a", then "@x.cc": MaxFieldLen + 1 characters
ELong == [k \in 1..(MaxFieldLen + 1) |-> IF k <= MaxFieldLen - 4 THEN "a" ELSE <<"@", "x", ".", "c", "c">>[k - (MaxFieldLen - 4)]]

EmailSignupRequests ==
    ClientSignupRequests
    \cup { Request("signup", NoToken, U2, ELong, P2, P2, 0) }

EmailEditRequests ==
    { Request("edit_profile", t, None, e, None, None, 0) :
        t \in issued, e \in {EA, EB, EBad, ELong} }
    \cup { Request("edit_profile", t, None, ELong, None, None, 3) :
             t \in issued }

NextEmail ==
    \/ \E r \in EmailSignupRequests : signup(r)
    \/ \E r \in ClientLoginRequests : login(r)
    \/ \E r \in EmailEditRequests : edit_profile(r)

SpecEmail == Init /\ [][NextEmail]_vars

----------------------------------------------------------------------------
(* The favourites of one signed-up user, over the places it submitted *)

NextFavourites ==
    \/ \E r \in EditSignupRequests : signup(r)
    \/ \E r \in EditLoginRequests : login(r)
    \/ \E t \in issued :
           add_place(ClientRequest("add_my_place", t, NoId, N1, None))
    \/ \E t \in issued, id \in PlaceIds :
           add_favourit(ClientRequest("add_favourite", t, id, None, None))
    \/ \E t \in issued, id \in PlaceIds :
           delete_favourit(ClientRequest("delete_favourite", t, id, None, None))
    \/ \E t \in issued :
           get_all_places(ClientRequest("get_all_places", t, NoId, None, None))

SpecFavourites == Init /\ [][NextFavourites]_vars

----------------------------------------------------------------------------
(* The functions of CreateUser called by themselves, with arguments that   *)
(* are missing, None, empty, at the length limit and one past it           *)

L255 == [k \in 1..MaxFieldLen |-> "a"]
L256 == [k \in 1..(MaxFieldLen + 1) |-> "a"]

Arguments == {Missing, None, Empty, L255, L256}

ValidateInputCalls ==
    { Request("validate_input", NoToken, u, e, p, c, 0) :
        u \in Arguments, e \in Arguments, p \in Arguments, c \in Arguments }

\* emails put together from a local part, a domain and a last label, and
\* strings that lack one of the three
LocalParts == { <<"a">>, <<"a", ".", "b">>, <<".", "a">> }
Domains == { <<"x">>, <<"x", ".", "y">>, <<"-">> }
LastLabels ==
    { <<"c">>, <<"c", "c">>, <<"c", "C">>, <<"c", "1">>, <<"c", "|", "c">>,
      <<"|", "c">>, <<"c", "|">>, [k \in 1..7 |-> "c"], [k \in 1..8 |-> "c"] }

EmailArguments ==
    { l \o <<"@">> \o d \o <<".">> \o t :
        l \in LocalParts, d \in Domains, t \in LastLabels }
    \cup { Missing, None, Empty, EBad, <<"@", "x", ".", "c", "c">>,
           <<"a", "@", ".", "c", "c">>, <<"a", "x", ".", "c", "c">>, ELong }

ValidateEmailCalls ==
    { Request("validate_email", NoToken, None, e, None, None, 0) :
        e \in EmailArguments }

NextValidate ==
    \/ \E r \in ValidateInputCalls : validate_input_call(r)
    \/ \E r \in ValidateEmailCalls : validate_email_call(r)

SpecValidate == Init /\ [][NextValidate]_vars

----------------------------------------------------------------------------
(* edit_profile with other requests served while it awaits its body:       *)
(* delete_account, login and signup run between its token_access and its   *)
(* UPDATE                                                                  *)

EditRaceRequests ==
    { Request("edit_profile", t, U2, None, None, None, 0) : t \in issued }
    \cup { Request("edit_profile", t, None, EB, None, None, 0) : t \in issued }
    \cup { Request("edit_profile", t, None, None, pc[1], pc[2], 0) :
             t \in issued, pc \in {<<P2, P2>>, <<P1, P2>>} }

NextEditRace ==
    \/ \E r \in EditSignupRequests : signup(r)
    \/ \E r \in EditLoginRequests : login(r)
    \/ \E t \in issued :
           delete_account(Request("delete_account", t, None, None, None, None, 0))
    \/ \E w \in Workers, r \in EditRaceRequests : edit_profile_token(w, r)
    \/ \E w \in Workers : edit_profile_update(w)

SpecEditRace == Init /\ [][NextEditRace]_vars

----------------------------------------------------------------------------
(* The connections of a request: the auth handlers with every unit of     *)
(* work able to fail, and the handlers of client.py that take more than   *)
(* one connection                                                         *)

AllPlaceIds == 1..(MaxPlaces + 1)

PoolRequests ==
    { Request("signup", NoToken, U1, EA, P1, P1, 0) }
    \cup { Request("login", NoToken, U1, None, P1, None, 0) }
    \cup { Request("edit_profile", t, None, EB, None, None, f) :
             t \in issued, f \in {0, -3} }

Pooled(op) == {r \in PoolRequests : r.op = op}

NextPools ==
    \/ \E r \in Pooled("signup") : signup(r)
    \/ \E r \in Pooled("login") : login(r)
    \/ \E r \in Pooled("edit_profile") : edit_profile(r)
    \/ \E t \in issued, id \in AllPlaceIds :
           add_favourit(ClientRequest("add_favourite", t, id, None, None))
    \/ \E t \in issued :
           update_databse(ClientRequest("update_databse", t, NoId, None, None))

SpecPools == Init /\ [][NextPools]_vars

----------------------------------------------------------------------------
(* The catalogue: the places users submit and the copy of the server's    *)
(* places                                                                 *)

NextCatalog ==
    \/ \E r \in EditSignupRequests : signup(r)
    \/ \E r \in EditLoginRequests : login(r)
    \/ \E t \in issued, name \in {N1, N2} :
           add_place(ClientRequest("add_my_place", t, NoId, name, None))
    \/ \E t \in issued, id \in AllPlaceIds, name \in {N1, N2} :
           edit_place(ClientRequest("edit_my_place", t, id, name, None))
    \/ \E t \in issued, id \in AllPlaceIds :
           delete_my_place(ClientRequest("delete_my_place", t, id, None, None))
    \/ \E t \in issued :
           update_databse(ClientRequest("update_databse", t, NoId, None, None))
    \/ \E t \in issued :
           get_all_places(ClientRequest("get_all_places", t, NoId, None, None))

SpecCatalog == Init /\ [][NextCatalog]_vars

----------------------------------------------------------------------------
(* Properties.  Each is about the last request served: req is the request, *)
(* resp the response, users_before the table the request found and         *)
(* users_auth the table it left.                                           *)

\* the request met no storage failure of its own and a pool that is not used up
StorageUp == req.fault = 0 /\ pool < maxconn

\* the bearer token verifies and carries an id claim
BearerId == jwt_decode(req.token).id
BearerVerifies == jwt_decode(req.token).error = "none" /\ BearerId # NoId

RowOf(rows, id) == \E row \in rows : row.id = id

\* the password a row was last given opens it
Opens(row, password) ==
    row.password_hash = password_hashing(password, row.password_salt)

(* C1: every row signup created can log in: login with the row's username  *)
(* and password answers 200 with a token, and token_access on that token   *)
(* returns the id of that row, also when several rows share the username.  *)
C1_LoginResolvesToTheRow ==
    (req.op = "login" /\ StorageUp) =>
        \A row \in users_auth :
            (row.username = req.username /\ Opens(row, req.password)) =>
                /\ resp.status = 200
                /\ token_access(resp.jwt_token, 0).kind = "id"
                /\ token_access(resp.jwt_token, 0).id = row.id

(* C2: for a verified token whose id has no row, token_access returns None *)
(* without raising and the token-gated endpoint answers 404.               *)
C2_NoRowIsNotFound ==
    (/\ req.op \in {"edit_profile", "delete_account"}
     /\ StorageUp
     /\ BearerVerifies
     /\ ~RowOf(users_before, BearerId)) =>
        /\ token_access(req.token, 0).kind = "None"
        /\ resp.status = 404

(* C3: delete_account with a verified token whose id has no row (a second  *)
(* delete with the same token) answers 404 and leaves users_auth as it     *)
(* was; it answers neither 200 nor 500.                                    *)
C3_SecondDeleteIsNotFound ==
    (/\ req.op = "delete_account"
     /\ StorageUp
     /\ BearerVerifies
     /\ ~RowOf(users_before, BearerId)) =>
        /\ resp.status = 404
        /\ resp.status \notin {200, 500}
        /\ users_auth = users_before

(* C4: edit_profile and delete_account answer 403 to a token that is       *)
(* malformed or fails signature verification and 401 to an expired token,  *)
(* and leave users_auth as it was.                                         *)
C4_TokenErrorsKeepTheirStatus ==
    (req.op \in {"edit_profile", "delete_account"}) =>
        /\ jwt_decode(req.token).error = "InvalidTokenError" =>
               resp.status = 403 /\ users_auth = users_before
        /\ jwt_decode(req.token).error = "ExpiredSignatureError" =>
               resp.status = 401 /\ users_auth = users_before

\* signup got all four fields, and the two passwords differ
SignupMismatch ==
    /\ req.op = "signup"
    /\ Truthy(req.username) /\ Truthy(req.email)
    /\ Truthy(req.password) /\ Truthy(req.confirm_password)
    /\ req.password # req.confirm_password

(* C5 as stated: signup with password different from confirm_password      *)
(* always answers 403 and inserts nothing, whatever the store holds (the   *)
(* storage being up).                                                      *)
C5_MismatchAlways403 ==
    (SignupMismatch /\ StorageUp) =>
        resp.status = 403 /\ users_auth = users_before

(* C5 as amended: signup with password different from confirm_password     *)
(* never inserts a row; it answers 400 (email already exists) when the     *)
(* email has a row, 403 when it has none, and 500 only when the            *)
(* email_exists lookup fails.                                              *)
C5_MismatchNeverInserts ==
    SignupMismatch =>
        /\ users_auth = users_before
        /\ resp.status = (IF req.fault \in {1, -1} \/ pool >= maxconn
                          THEN 500
                          ELSE IF \E row \in users_before :
                                      row.email = req.email
                               THEN 400 ELSE 403)

\* C5 witness: a mismatched signup found its email in the table and was
\* answered 400
C5_Witness ==
    /\ SignupMismatch
    /\ resp.status = 400
    /\ \E row \in users_before : row.email = req.email

(* C6: without interleaving, signup with an email that already has a row   *)
(* answers 400 "Email already exists" and inserts nothing (absent a        *)
(* storage failure), and no two rows of users_auth share an email.         *)
C6_DuplicateEmailRejected ==
    /\ (/\ req.op = "signup"
        /\ StorageUp
        /\ Truthy(req.username) /\ Truthy(req.email)
        /\ Truthy(req.password) /\ Truthy(req.confirm_password)
        /\ \E row \in users_before : row.email = req.email) =>
            /\ resp = Response(400, "Bad request: Email already exists.")
            /\ users_auth = users_before
    /\ \A r1, r2 \in users_auth : r1.email = r2.email => r1 = r2

\* C6 witness: a well-formed signup found its email in a table of two rows
\* and was answered 400
C6_Witness ==
    /\ req.op = "signup"
    /\ req.fault = 0
    /\ req.password = req.confirm_password
    /\ resp.status = 400
    /\ Cardinality(users_before) = 2
    /\ \E row \in users_before : row.email = req.email

(* C7: an edit_profile request with two or more of username, email,        *)
(* password non-null, or with nothing supplied, changes nothing in the     *)
(* resolved row, and no request changes more than one of username, email   *)
(* and password (salt and hash).                                           *)
C7_TwoIntentsChangeNothing ==
    LET NonNull == {f \in {"username", "email", "password"} : req[f] # None}
        Classes(old, new) ==
            {f \in {"username", "email", "password_salt"} : old[f] # new[f]}
            \cup (IF old.password_hash # new.password_hash
                  THEN {"password_salt"} ELSE {})
    IN req.op = "edit_profile" =>
        /\ Cardinality(NonNull) # 1 => users_auth = users_before
        /\ \A old \in users_before, new \in users_auth :
               old.id = new.id => Cardinality(Classes(old, new)) <= 1

(* C8: forgotten_password for an existing email with password different    *)
(* from confirm_password answers with a structured business-rule response, *)
(* not a 500, and leaves the row's salt and hash as they were.             *)
C8_MismatchIsNot500 ==
    (/\ req.op = "forgotten_password"
     /\ StorageUp
     /\ Truthy(req.email) /\ Truthy(req.password)
     /\ Truthy(req.confirm_password)
     /\ req.password # req.confirm_password
     /\ \E row \in users_before : row.email = req.email) =>
        /\ resp.status # 500
        /\ users_auth = users_before

(* C9: every connection taken from the auth pool is put back on every exit *)
(* path, so between requests no connection is checked out.                 *)
C9_EveryConnectionReturned == pool = 0

(* C9, the consequence: a later request can still obtain a connection, so  *)
(* a request that meets no storage failure of its own is never answered    *)
(* 500 for want of a connection.                                           *)
C9_LaterRequestsGetAConnection ==
    (req.op = "login" /\ req.fault = 0) => resp.status # 500

(* C10: a token-gated endpoint that changes or deletes a user-scoped       *)
(* resource rejects the request when the identity resolved from the token  *)
(* is not the one that created the resource.                               *)
C10_OnlyTheCreatorMutates ==
    /\ (req.op \in {"edit_my_place", "delete_my_place"}
        /\ resp.status = 201) =>
            place_creator[req.id] = BearerId
    /\ (req.op \in {"add_edit_note", "delete_note"} /\ resp.status = 201) =>
            note_creator[req.id] = BearerId

(* C11: edit_profile and delete_account act only on the row whose id is    *)
(* the id the bearer token resolves to: every row with another id is in    *)
(* the table after the request exactly as it was before it.                *)
C11_OtherRowsUntouched ==
    (req.op \in {"edit_profile", "delete_account"}) =>
        /\ \A row \in users_before : row.id # BearerId => row \in users_auth
        /\ \A row \in users_auth : row.id # BearerId => row \in users_before

\* C11 witness: an edit or a delete changed the bearer's row while the
\* table held a second row
C11_Witness ==
    /\ req.op \in {"edit_profile", "delete_account"}
    /\ resp.status = 200
    /\ users_auth # users_before
    /\ \E row \in users_before : row.id # BearerId

\* the requests that set a password, and the password they set
SetsPassword ==
    \/ req.op = "signup" /\ resp.status = 201
    \/ req.op = "forgotten_password" /\ resp.status = 200
    \/ req.op = "edit_profile"
           /\ resp.detail = "OK: Password updated successfully."

(* C12: every row's password_hash is password_hashing of a password and    *)
(* the row's current password_salt; a request changes the salt or the hash *)
(* of a row only by setting a password, and the row then holds the hash of *)
(* that request's password under the salt it holds: the two are written    *)
(* together.                                                               *)
C12_HashFollowsSalt ==
    /\ \A row \in users_auth :
           \E p \in Passwords :
               row.password_hash = password_hashing(p, row.password_salt)
    /\ \A new \in users_auth :
           (~\E old \in users_before :
                 /\ old.id = new.id
                 /\ old.password_salt = new.password_salt
                 /\ old.password_hash = new.password_hash) =>
               /\ SetsPassword
               /\ new.password_hash
                      = password_hashing(req.password, new.password_salt)

\* C12 witness: forgotten_password or a password edit replaced the hash of
\* a row
C12_Witness ==
    /\ req.op \in {"forgotten_password", "edit_profile"}
    /\ resp.status = 200
    /\ \E old \in users_before, new \in users_auth :
           /\ old.id = new.id
           /\ old.password_hash # new.password_hash
           /\ old.password_salt # new.password_salt

(* C13: login with a username that has no row, and login with a username   *)
(* that has rows none of which the password opens, get one and the same    *)
(* response: 401, body "Unauthorized", no token.                           *)
C13_UnknownAndWrongAlike ==
    (/\ req.op = "login"
     /\ StorageUp
     /\ Truthy(req.username) /\ Truthy(req.password)
     /\ ~\E row \in users_auth :
            row.username = req.username /\ Opens(row, req.password)) =>
        resp = Response(401, "Unauthorized")

\* C13 witness: a login with the username of a row and a password that
\* opens no row of that username was answered 401
C13_Witness ==
    /\ req.op = "login"
    /\ resp.status = 401
    /\ \E row \in users_auth : row.username = req.username

(* C14: a signup answered 201 inserts exactly one row, whose id no row of  *)
(* the table had, changes no other row and returns no token; a signup      *)
(* answered 400 or 403 leaves the table as it was.                         *)
C14_SignupInsertsOneOrNothing ==
    req.op = "signup" =>
        /\ resp.status = 201 =>
               /\ users_before \subseteq users_auth
               /\ Cardinality(users_auth \ users_before) = 1
               /\ \A new \in users_auth \ users_before :
                      /\ \A old \in users_before : old.id # new.id
                      /\ new.username = req.username
                      /\ new.email = req.email
               /\ resp.jwt_token = NoToken
               /\ resp.jwt_token \notin issued
        /\ resp.status \in {400, 403} => users_auth = users_before

\* C14 witness: a signup was answered 201 by a table that already held a
\* row
C14_Witness ==
    /\ req.op = "signup"
    /\ resp.status = 201
    /\ users_before # {}

\* the outcome of a login with the given username and password in the
\* current state, for every row fetchone can hand back
LoginStatuses(username, password) ==
    { login_outcome(Request("login", NoToken, username, None, password,
                            None, 0), record).resp.status :
        record \in get_user_records(username) }

(* C15: forgotten_password for an email with no row answers 403 and leaves *)
(* the table as it was; for an email with a row and password equal to      *)
(* confirm_password it overwrites salt and hash of the row with that email *)
(* and nothing else, after which login with that row's username answers    *)
(* 200 with the new password and 401 with the old one.                     *)
C15_ResetThenLogin ==
    (/\ req.op = "forgotten_password"
     /\ StorageUp
     /\ Truthy(req.email) /\ Truthy(req.password)
     /\ Truthy(req.confirm_password)) =>
        /\ (~\E row \in users_before : row.email = req.email) =>
               resp.status = 403 /\ users_auth = users_before
        /\ ((\E row \in users_before : row.email = req.email)
               /\ req.password = req.confirm_password) =>
               /\ resp.status = 200
               /\ \A old \in users_before :
                      IF old.email = req.email
                      THEN \E new \in users_auth :
                               /\ new.id = old.id
                               /\ new.username = old.username
                               /\ new.email = old.email
                               /\ Opens(new, req.password)
                               /\ LoginStatuses(new.username, req.password)
                                      = {200}
                               /\ \A p \in Passwords \ {req.password} :
                                      Opens(old, p) =>
                                          LoginStatuses(new.username, p)
                                              = {401}
                      ELSE old \in users_auth
               /\ Cardinality(users_auth) = Cardinality(users_before)

(* C16: a token login issued resolves to its id for as long as the row of  *)
(* that id exists, whatever edit_profile and forgotten_password did to the *)
(* row since; only delete_account removes the row, and from then on the    *)
(* token resolves to no id.                                                *)
C16_TokenOutlivesCredentials ==
    /\ \A t \in issued :
           IF RowOf(users_auth, t.id)
           THEN /\ token_access(t, 0).kind = "id"
                /\ token_access(t, 0).id = t.id
           ELSE token_access(t, 0).kind # "id"
    /\ ~(req.op = "delete_account" /\ resp.status = 200) =>
           \A t \in issued :
               RowOf(users_before, t.id) => RowOf(users_auth, t.id)

\* C16 witness: edit_profile or forgotten_password changed a row for which
\* a token had been issued, and the token still resolves
C16_Witness ==
    /\ req.op \in {"edit_profile", "forgotten_password"}
    /\ resp.status = 200
    /\ \E t \in issued :
           /\ \E old \in users_before : old.id = t.id /\ old \notin users_auth
           /\ token_access(t, 0).kind = "id"

(* C17: no request other than delete_account removes or changes the id of  *)
(* a row (the row of each id stays, with at most one of username, email    *)
(* and password changed), and the token of a login answered 200 carries    *)
(* the id of a row that the username and the password match, and no other  *)
(* claim.                                                                  *)
C17_IdIsStable ==
    /\ req.op # "delete_account" =>
           \A old \in users_before :
               \E new \in users_auth :
                   /\ new.id = old.id
                   /\ \/ new.username = old.username /\ new.email = old.email
                      \/ new.username = old.username
                             /\ new.password_hash = old.password_hash
                      \/ new.email = old.email
                             /\ new.password_hash = old.password_hash
    /\ (req.op = "login" /\ resp.status = 200) =>
           \E row \in users_auth :
               /\ row.username = req.username
               /\ Opens(row, req.password)
               /\ resp.jwt_token = [form |-> "jwt", key |-> JWT_SECRET_KEY,
                                    id |-> row.id, exp |-> "none"]

\* C17 witness: an edit changed the username of a row, which kept its id
C17_Witness ==
    /\ req.op = "edit_profile"
    /\ resp.detail = "OK: Username updated successfully."
    /\ \E old \in users_before, new \in users_auth :
           old.id = new.id /\ old.username # new.username

\* the token-gated endpoints of endpoints/client.py in the model
ClientOps ==
    {"add_my_place", "edit_my_place", "delete_my_place", "add_edit_note",
     "delete_note", "get_all_places", "place", "get_my_places",
     "get_my_place", "get_note"}

C19_NoPlaintextPassword ==
    /\ "password" \notin printed
    /\ "confirm_password" \notin printed
    /\ \A row \in users_auth :
           /\ row.password_salt \in Salts
           /\ row.password_salt \notin {req.password, req.confirm_password}
           /\ \E p \in Passwords :
                  row.password_hash = password_hashing(p, row.password_salt)

\* C19 witness: a signup carrying a password had its INSERT raise, and the
\* handler printed the error
C19_Witness ==
    /\ req.op = "signup"
    /\ Truthy(req.password)
    /\ printed # {}

EmailOnly ==
    /\ req.op = "edit_profile"
    /\ Truthy(req.email)
    /\ edit_only_username_or_email(req.email, req.username, req.password, req.confirm_password)
    /\ BearerVerifies
    /\ RowOf(users_before, BearerId)

\* what signup asks of an email before its INSERT: email_exists is False,
\* and check_signup_input finds the shape and the length right
SignupEmailChecks(email) ==
    /\ ~\E row \in users_before : row.email = email
    /\ validate_email(email)
    /\ Len(email) <= MaxFieldLen

(* C21: edit_profile with only email supplied commits the new email only   *)
(* if it passes the checks signup applies to an email (no row holds it,    *)
(* email shape, length at most 255); otherwise the email of the resolved   *)
(* row is as it was.                                                       *)
C21_EmailEditChecksLikeSignup ==
    EmailOnly =>
        \A old \in users_before :
            old.id = BearerId =>
                \E new \in users_auth :
                    /\ new.id = old.id
                    /\ \/ new.email = old.email
                       \/ new.email = req.email /\ SignupEmailChecks(req.email)

\* edit_profile was sent password and confirm_password and neither username
\* nor email, by a bearer whose row is there, and the storage was up
PasswordOnly ==
    /\ req.op = "edit_profile"
    /\ req.username = None /\ req.email = None
    /\ req.password # None /\ req.confirm_password # None
    /\ BearerVerifies
    /\ RowOf(users_before, BearerId)
    /\ StorageUp

(* C22: edit_profile with only password and confirm_password supplied:     *)
(* when the two are equal it answers 200 and the resolved row holds a salt *)
(* of password_salting and the hash of the password under it, written by   *)
(* one UPDATE; when they differ the salt and the hash of the row are as    *)
(* they were and login with the row's username and its old password        *)
(* answers 200.                                                            *)
C22_PasswordEdit ==
    PasswordOnly =>
        \A old \in users_before :
            old.id = BearerId =>
                \E new \in users_auth :
                    /\ new.id = old.id
                    /\ new.username = old.username
                    /\ new.email = old.email
                    /\ IF req.password = req.confirm_password
                       THEN /\ resp.status = 200
                            /\ new.password_salt \in Salts
                            /\ Opens(new, req.password)
                       ELSE /\ new.password_salt = old.password_salt
                            /\ new.password_hash = old.password_hash
                            /\ \A p \in Passwords :
                                   Opens(old, p) =>
                                       LoginStatuses(old.username, p) = {200}

\* another row than the bearer's held the username of the request
UsernameHeld ==
    \E row \in users_before :
        row.username = req.username /\ row.id # BearerId

(* C23: usernames are not kept unique.  A well-formed signup whose email   *)
(* has no row answers 201 and inserts its row also when a row holds the    *)
(* username, and edit_profile with only username supplied sets the         *)
(* username of the bearer's row also when another row holds it.            *)
C23_UsernamesNotUnique ==
    /\ (/\ req.op = "signup"
        /\ StorageUp
        /\ Truthy(req.username) /\ Truthy(req.email)
        /\ Truthy(req.password) /\ Truthy(req.confirm_password)
        /\ check_signup_input(req.username, req.email, req.password, req.confirm_password)
        /\ ~\E row \in users_before : row.email = req.email
        /\ \E row \in users_before : row.username = req.username) =>
            /\ resp.status = 201
            /\ \E new \in users_auth \ users_before :
                   new.username = req.username
            /\ \E r1, r2 \in users_auth :
                   r1 # r2 /\ r1.username = r2.username
    /\ (/\ req.op = "edit_profile"
        /\ StorageUp
        /\ Truthy(req.username)
        /\ edit_only_username_or_email(req.username, req.email, req.password, req.confirm_password)
        /\ BearerVerifies
        /\ RowOf(users_before, BearerId)
        /\ UsernameHeld) =>
            /\ resp.status = 200
            /\ \E r1, r2 \in users_auth :
                   /\ r1.id = BearerId /\ r2.id # BearerId
                   /\ r1.username = req.username
                   /\ r2.username = req.username

\* C23 witness: edit_profile gave the bearer's row a username that it did
\* not have and that the other row holds, both rows being of signup
C23_Witness ==
    /\ req.op = "edit_profile"
    /\ resp.detail = "OK: Username updated successfully."
    /\ UsernameHeld
    /\ \E old \in users_before :
           old.id = BearerId /\ old.username # req.username
    /\ \E r1, r2 \in users_auth : r1 # r2 /\ r1.username = r2.username

(* C24: delete_favourite for a place that is not in favourites (the 205    *)
(* response) puts its connection back to pool_client as every other exit   *)
(* path does: the request leaves as many connections out as it found, so   *)
(* after any number of such requests all 10 are available.                 *)
C24_NotInFavouritesReturnsConnection ==
    [][(req'.op = "delete_favourite" /\ resp'.status = 205) =>
           pool_client' = pool_client]_vars

(* C25: CreateUser.validate_input returns True exactly when all four of    *)
(* username, email, password and confirm_password are present and each has *)
(* length at most 255 (255 accepted, 256 rejected), and returns False,     *)
(* without raising, when any of them is missing, null or oversized.        *)
C25_ValidateInputIsTotal ==
    req.op = "validate_input" =>
        LET kwargs == <<req.username, req.email, req.password, req.confirm_password>>
            Fits(x) == x \notin {Missing, None} /\ Len(x) <= MaxFieldLen
        IN resp.detail = (IF \A i \in 1..4 : Fits(kwargs[i])
                          THEN "True" ELSE "False")

\* the letters A-Z and a-z
Letters == Lower \cup Upper

(* C26: CreateUser.validate_email returns True only for strings of the     *)
(* shape local-part@domain.tld whose final label, the characters after the *)
(* last ".", consists of 2 to 7 letters A-Z/a-z and no other character.    *)
C26_EmailShape ==
    (req.op = "validate_email" /\ resp.detail = "True") =>
        LET email == req.email IN
        \E i \in 1..Len(email), j \in 1..Len(email) :
            /\ email[i] = "@" /\ 1 < i
            /\ email[j] = "." /\ i + 1 < j
            /\ \A k \in (j + 1)..Len(email) : email[k] # "."
            /\ Len(email) - j >= 2 /\ Len(email) - j <= 7
            /\ \A k \in (j + 1)..Len(email) : email[k] \in Letters

(* C27: ids are never reused, so a token never resolves to another user    *)
(* than the one it was issued for.  Every id of a row and of an issued     *)
(* token is one that signup handed out; the row of a signup answered 201    *)
(* has an id that no row has and no issued token carries; no other        *)
(* request on users_auth brings an id into the table; and a token whose id *)
(* has no row (its user was deleted) resolves to no id, whatever was       *)
(* signed up since.                                                        *)
C27_IdsAreNeverReused ==
    /\ \A row \in users_auth : row.id \in 1..(nextId - 1)
    /\ \A t \in issued : t.id \in 1..(nextId - 1)
    /\ (req.op = "signup" /\ resp.status = 201) =>
           \A new \in users_auth \ users_before :
               /\ \A old \in users_before : old.id # new.id
               /\ \A t \in issued : t.id # new.id
    /\ req.op \in {"login", "forgotten_password", "edit_profile",
                   "delete_account"} =>
           \A row \in users_auth : RowOf(users_before, row.id)
    /\ \A t \in issued :
           IF RowOf(users_auth, t.id)
           THEN token_access(t, 0).kind = "id" => token_access(t, 0).id = t.id
           ELSE token_access(t, 0).kind # "id"

\* C27 witness: a token-gated request came with the token of a deleted
\* user after a later signup had inserted a row, and resolved to no id
C27_Witness ==
    /\ req.op \in {"edit_profile", "delete_account"}
    /\ req.token \in issued
    /\ ~RowOf(users_before, req.token.id)
    /\ \E row \in users_before :
           row.id > req.token.id /\ row.username = U1 /\ row.email = EA
    /\ resp.status \in {404, 500}
    /\ users_auth = users_before

\* the edit_profile request goes on to an UPDATE: one intent, and for the
\* email and the password the checks before the UPDATE pass
ReachesUpdate ==
    \/ /\ Truthy(req.username)
       /\ edit_only_username_or_email(req.username, req.email, req.password, req.confirm_password)
    \/ /\ Truthy(req.email)
       /\ edit_only_username_or_email(req.email, req.username, req.password, req.confirm_password)
       /\ ~\E row \in users_before : row.email = req.email
       /\ validate_email(req.email)
    \/ /\ edit_only_password(req.password, req.confirm_password, req.username, req.email)
       /\ Truthy(req.password)
       /\ req.password = req.confirm_password

NotUpdated ==
    { Response(500, "Username is not updated, check id."),
      Response(500, "Email is not updated, check id or email."),
      Response(500, "Password is not updated, check id.") }

(* C28: edit_profile never creates or resurrects a row.  No edit_profile   *)
(* brings an id into users_auth; and when the row of the resolved id was   *)
(* deleted between token_access and the UPDATE, the UPDATE matches no row: *)
(* the table is left as it was, with no row of that id, and the answer is  *)
(* the 500 "not updated" of the branch.                                    *)
C28_EditNeverResurrects ==
    req.op = "edit_profile" =>
        /\ \A row \in users_auth : RowOf(users_before, row.id)
        /\ (BearerVerifies /\ ~RowOf(users_before, BearerId)) =>
               /\ users_auth = users_before
               /\ ~RowOf(users_auth, BearerId)
               /\ ReachesUpdate => resp \in NotUpdated

\* C28 witness: the UPDATE of a username edit ran after delete_account had
\* removed the row of the resolved id and a later signup had inserted a row
C28_Witness ==
    /\ req.op = "edit_profile"
    /\ resp = Response(500, "Username is not updated, check id.")
    /\ BearerVerifies
    /\ ~RowOf(users_before, BearerId)
    /\ users_auth # {}


Pools == {"pool", "pool_client", "pool_server"}

\* the connections of pool p the handler of req holds after its first k
\* calls of getconn and putconn
Held(p, k) ==
    Cardinality({i \in 1..k : conns[i] = Get(p)})
    - Cardinality({i \in 1..k : conns[i] = Put(p)})

\* C29: no request handler holds two connections of the same pool at once:
\* after each of its calls of getconn and putconn it holds none or one
\* connection of each pool, far from the maxconn of the pool; and
\* update_databse, when it answers 201 or 205, has held one connection of
\* pool_client and one of pool_server at the same time
C29_OneConnectionOfAPool ==
    /\ \A p \in Pools : \A k \in 0..Len(conns) :
           Held(p, k) \in {0, 1} /\ Held(p, k) < maxconn
    /\ (req.op = "update_databse" /\ resp.status \in {201, 205})
           => \E k \in 1..Len(conns) :
                  Held("pool_client", k) = 1 /\ Held("pool_server", k) = 1

\* C29 witness: update_databse answered while it held a connection of each
\* of the two pools, after token_access took and put back one of pool
C29_Witness ==
    /\ req.op = "update_databse"
    /\ resp.status = 201
    /\ \E k \in 1..Len(conns) :
           /\ Held("pool_client", k) = 1
           /\ Held("pool_server", k) = 1
           /\ Held("pool", k) = 0
    /\ \E k \in 1..Len(conns) : Held("pool", k) = 1


\* every id of my_places is an id of places
IdsKept == \A row \in my_places : \E p \in places : p.id = row.id

\* the update_databse requests of the catalogue
UpdateRequests ==
    { ClientRequest("update_databse", t, NoId, None, None) : t \in issued }

====
